---- MODULE Spec2Model ----
(***************************************************************************)
(* Model of the protocol dispatch layer (WebKitDebugSession, Logger) and   *)
(* of the process launcher (ChromeDebugAdapter).                           *)
(*                                                                         *)
(* The session runs on one JavaScript thread: a request handler runs to    *)
(* completion, an engine future settles at an arbitrary later moment, and  *)
(* the continuation attached with then() runs as a job taken from the head *)
(* of the job queue.                                                       *)
(***************************************************************************)
EXTENDS Integers, Sequences, FiniteSets, TLC

\* ---- bounds ----
MaxReq == 2        \* requests delivered to the session
MaxTicks == 1      \* firings of the separator interval
MaxEvents == 1     \* events emitted by the engine
MaxLogged == 1     \* requests delivered while ticks and events are interleaved
MaxLaunch == 2     \* launch calls that spawn a process
MaxDisconnect == 2 \* disconnect calls
MaxClear == 1      \* clearEverything calls
MaxChildErrors == 1 \* 'error' events emitted by one child process

\* ---- values ----
Undefined == "undefined"
Commands == {"evaluate", "setBreakpoints"}
Bodies == {"bodyA", "bodyB"}
\* An error value: a thrown/rejected string, or an Error object with a message.
ErrorValues ==
    {[kind |-> "string", text |-> "unknowncommand"],
     [kind |-> "Error", text |-> "unknowncommand"],
     [kind |-> "Error", text |-> "boom"]}
\* what the adapter proxy can throw instead of returning
ThrownValues == {[kind |-> "string", text |-> "boom"]}

NoErr == [kind |-> "none", text |-> ""]

\* Logger.ALLOW_LOGGING
ALLOW_LOGGING == TRUE

\* Response.body.error is absent
NoError == [id |-> 0, format |-> Undefined, variables |-> <<>>, dest |-> Undefined]

VARIABLES
    isServer,     \* Logger._logger._isServer
    nextSeq,      \* number of requests delivered so far
    request,      \* seq -> the Request
    response,     \* seq -> the Response object created for the request
    future,       \* seq -> state of the promise returned by the adapter proxy
    cont,         \* seq -> state of the continuations attached by sendResponseAsync
    jobs,         \* job queue: continuations ready to run, oldest first
    settled,      \* history: seqs in the order their futures settled
    io,           \* history: Logger.log calls, console writes, transport sends, teardowns
    ticks,        \* firings of the separator interval so far
    chromeProc,   \* ChromeDebugAdapter._chromeProc (0 = no handle)
    procs,        \* pid -> the spawned process
    coreLog,      \* history: lines written through the core logger
    lastLaunch,   \* outcome of the latest launch call
    attaches,     \* calls of doAttach()
    disconnects,  \* calls of disconnect()
    baseDisconnects,  \* calls of super.disconnect()
    baseClears,   \* calls of super.clearEverything()
    terminated    \* terminateSession() has been called

sessionVars == <<isServer, nextSeq, request, response, future, cont, jobs, settled, io, ticks>>
launcherVars == <<chromeProc, procs, coreLog, lastLaunch, attaches, disconnects, baseDisconnects, baseClears, terminated>>
vars == <<sessionVars, launcherVars>>

\* ---- pure helpers ----

\* e.toString()
ToStr(e) == IF e.kind = "Error" THEN "Error: " \o e.text ELSE e.text

\* e.message
MessageOf(e) == IF e.kind = "Error" THEN e.text ELSE Undefined

\* new Response(request)
NewResponse(req) ==
    [request_seq |-> req.seq, command |-> req.command, success |-> TRUE,
     body |-> Undefined, message |-> Undefined, error |-> NoError]

\* mutant: _log tests only the static flag
LoggerLogAnyMode(h, msg) ==
    LET called == Append(h, [ch |-> "log", msg |-> msg])
    IN IF ALLOW_LOGGING
       THEN Append(called, [ch |-> "console", msg |-> msg])
       ELSE called

\* Logger.log(msg) / Logger._log(msg): the call, then the write if allowed
LoggerLog(h, msg) ==
    LET called == Append(h, [ch |-> "log", msg |-> msg])
    IN IF isServer /\ ALLOW_LOGGING
       THEN Append(called, [ch |-> "console", msg |-> msg])
       ELSE called

\* mutant: sendResponse hands the response to the transport and logs afterwards
SendResponseThenLog(h, resp) ==
    LoggerLog(Append(h, [ch |-> "send", resp |-> resp]),
              [tag |-> "To client", payload |-> resp])

\* WebKitDebugSession.sendEvent: log, then hand to the transport
SendEvent(h, ev) ==
    Append(LoggerLog(h, [tag |-> "To client", payload |-> ev]),
           [ch |-> "event", ev |-> ev])

\* dispatchRequest: log the request, then call the adapter proxy
ReceiveRequest(h, req) ==
    Append(LoggerLog(h, [tag |-> "From client", command |-> req.command]),
           [ch |-> "proxy", seq |-> req.seq])

\* WebKitDebugSession.sendResponse: log, then hand to the transport
SendResponse(h, resp) ==
    Append(LoggerLog(h, [tag |-> "To client", payload |-> resp]),
           [ch |-> "send", resp |-> resp])

\* the Response object after a handler ran: as sent if the handler ended by sending it
LastSent(h, resp) ==
    IF h # <<>> /\ h[Len(h)].ch = "send" /\ h[Len(h)].resp.request_seq = resp.request_seq
    THEN h[Len(h)].resp
    ELSE resp

\* DebugSession.sendErrorResponse(response, code, format, variables, dest)
SendErrorResponse(h, resp, code, format, variables, dest) ==
    SendResponse(h, [resp EXCEPT !.success = FALSE,
                                 !.message = format,
                                 !.error = [id |-> code, format |-> format,
                                            variables |-> variables, dest |-> dest]])

\* mutant: the test reads e.message instead of e.toString()
IsUnknownCommandByMessage(e) == MessageOf(e) = "unknowncommand"

\* sendResponseAsync, rejection continuation: the unknown-command test
IsUnknownCommand(e) == ToStr(e) = "unknowncommand"

\* mutant: the evaluate special case is missing
RejectedMessageAlwaysTagged(req, e) == "[webkit-debug-adapter] " \o ToStr(e)

\* sendResponseAsync, rejection continuation: the message of a general failure
RejectedMessage(req, e) ==
    IF req.command = "evaluate"
    THEN ToStr(e)
    ELSE "[webkit-debug-adapter] " \o ToStr(e)

\* mutant: the response is kept in a field of the session, overwritten by each request
OnFulfilledSharedResponse(h, req, resp, body) ==
    SendResponse(h, [response[nextSeq] EXCEPT !.body = body])

\* sendResponseAsync, fulfilment continuation
OnFulfilled(h, req, resp, body) ==
    SendResponse(h, [resp EXCEPT !.body = body])

\* mutant: the unknown-command branch lacks its return and falls through
OnRejectedNoReturn(h, req, resp, e) ==
    LET h1 == IF IsUnknownCommand(e)
              THEN SendErrorResponse(h, resp, 1014, "Unrecognized request", <<>>, "Telemetry")
              ELSE h
        r1 == LastSent(h1, resp)
    IN SendResponse(LoggerLog(h1, [tag |-> "error", text |-> ToStr(e)]),
                    [r1 EXCEPT !.message = RejectedMessage(req, e), !.success = FALSE])

\* mutant: the unknown-command branch returns without sending
OnRejectedSilentUnknown(h, req, resp, e) ==
    IF IsUnknownCommand(e)
    THEN h
    ELSE SendResponse(LoggerLog(h, [tag |-> "error", text |-> ToStr(e)]),
                      [resp EXCEPT !.message = RejectedMessage(req, e), !.success = FALSE])

\* mutant: the evaluate special case is tested before the unknown-command case
OnRejectedEvaluateFirst(h, req, resp, e) ==
    IF req.command = "evaluate"
    THEN SendResponse(LoggerLog(h, [tag |-> "error", text |-> ToStr(e)]),
                      [resp EXCEPT !.message = ToStr(e), !.success = FALSE])
    ELSE IF IsUnknownCommand(e)
    THEN SendErrorResponse(h, resp, 1014, "Unrecognized request", <<>>, "Telemetry")
    ELSE SendResponse(LoggerLog(h, [tag |-> "error", text |-> ToStr(e)]),
                      [resp EXCEPT !.message = RejectedMessage(req, e), !.success = FALSE])

\* sendResponseAsync, rejection continuation
OnRejected(h, req, resp, e) ==
    IF IsUnknownCommand(e)
    THEN SendErrorResponse(h, resp, 1014, "Unrecognized request", <<>>, "Telemetry")
    ELSE SendResponse(LoggerLog(h, [tag |-> "error", text |-> ToStr(e)]),
                      [resp EXCEPT !.message = RejectedMessage(req, e), !.success = FALSE])

\* mutant: the catch block reports e.toString() instead of e.message
OnExceptionToString(h, resp, e) ==
    SendErrorResponse(h, resp, 1104,
                      "Exception while processing request (exception: {_exception})",
                      <<<<"_exception", ToStr(e)>>>>, "Telemetry")

\* dispatchRequest, catch block
OnException(h, resp, e) ==
    SendErrorResponse(h, resp, 1104,
                      "Exception while processing request (exception: {_exception})",
                      <<<<"_exception", MessageOf(e)>>>>, "Telemetry")

\* the TypeError raised by responseP.then when the proxy returned no promise
NotAPromise == [kind |-> "Error", text |-> "Cannot read property 'then' of undefined"]

\* what the adapter proxy's dispatchRequest call can do
ProxyOutcomes ==
    {[kind |-> "promise", e |-> NoErr], [kind |-> "nonpromise", e |-> NotAPromise]}
    \cup {[kind |-> "throw", e |-> e] : e \in ThrownValues}

\* ---- the session ----

SessionInit ==
    /\ isServer \in BOOLEAN
    /\ nextSeq = 0
    /\ request = <<>>
    /\ response = <<>>
    /\ future = <<>>
    /\ cont = <<>>
    /\ jobs = <<>>
    /\ settled = <<>>
    /\ io = <<>>
    /\ ticks = 0

\* WebKitDebugSession.dispatchRequest(request)
DispatchRequest(cmd, out) ==
    /\ nextSeq < MaxReq
    /\ LET req == [seq |-> nextSeq + 1, command |-> cmd]
           resp == NewResponse(req)
           logged == ReceiveRequest(io, req)
       IN /\ nextSeq' = nextSeq + 1
          /\ request' = Append(request, req)
          /\ IF out.kind = "promise"
             THEN /\ response' = Append(response, resp)
                  /\ future' = Append(future, [state |-> "pending", body |-> Undefined, e |-> NoErr])
                  /\ cont' = Append(cont, "attached")
                  /\ io' = logged
             ELSE /\ io' = OnException(logged, resp, out.e)
                  /\ response' = Append(response, LastSent(io', resp))
                  /\ future' = Append(future, [state |-> "threw", body |-> Undefined, e |-> out.e])
                  /\ cont' = Append(cont, "none")
    /\ UNCHANGED <<isServer, jobs, settled, ticks, launcherVars>>

\* the engine future of request s resolves with a body
Resolve(s, body) ==
    /\ s \in 1..nextSeq
    /\ future[s].state = "pending"
    /\ future' = [future EXCEPT ![s] = [state |-> "resolved", body |-> body, e |-> NoErr]]
    /\ jobs' = Append(jobs, s)
    /\ settled' = Append(settled, s)
    /\ UNCHANGED <<isServer, nextSeq, request, response, cont, io, ticks, launcherVars>>

\* the engine future of request s rejects with an error value
Reject(s, e) ==
    /\ s \in 1..nextSeq
    /\ future[s].state = "pending"
    /\ future' = [future EXCEPT ![s] = [state |-> "rejected", body |-> Undefined, e |-> e]]
    /\ jobs' = Append(jobs, s)
    /\ settled' = Append(settled, s)
    /\ UNCHANGED <<isServer, nextSeq, request, response, cont, io, ticks, launcherVars>>

\* sendResponseAsync: the continuation of the oldest settled future runs
RunContinuation ==
    /\ jobs # <<>>
    /\ LET s == Head(jobs)
       IN /\ jobs' = Tail(jobs)
          /\ cont' = [cont EXCEPT ![s] = "ran"]
          /\ io' = IF future[s].state = "resolved"
                   THEN OnFulfilled(io, request[s], response[s], future[s].body)
                   ELSE OnRejected(io, request[s], response[s], future[s].e)
          /\ response' = [response EXCEPT ![s] = LastSent(io', response[s])]
    /\ UNCHANGED <<isServer, nextSeq, request, future, settled, ticks, launcherVars>>

\* Logger.init: the separator interval fires
Tick ==
    /\ ticks < MaxTicks
    /\ ticks' = ticks + 1
    /\ io' = LoggerLog(io, [tag |-> "-"])
    /\ UNCHANGED <<isServer, nextSeq, request, response, future, cont, jobs, settled, launcherVars>>

\* the events the engine emits
Events == {[event |-> "stopped"]}

\* the engine emits an event through the callback given to the adapter proxy
EngineEvent(ev) ==
    /\ Cardinality({i \in 1..Len(io) : io[i].ch = "event"}) < MaxEvents
    /\ io' = SendEvent(io, ev)
    /\ UNCHANGED <<isServer, nextSeq, request, response, future, cont, jobs, settled, ticks, launcherVars>>

SessionNext ==
    \/ \E cmd \in Commands, out \in ProxyOutcomes : DispatchRequest(cmd, out)
    \/ \E s \in 1..MaxReq, body \in Bodies : Resolve(s, body)
    \/ \E s \in 1..MaxReq, e \in ErrorValues : Reject(s, e)
    \/ RunContinuation

\* ---- the launcher ----

\* launch configurations (ILaunchRequestArgs); "" and 0 stand for an absent field
Executables == {"", "/usr/bin/chrome"}
Discovered == {"", "/opt/chrome"}
Ports == {0, 9000}
RuntimeArgs == {<<>>, <<"--foo">>, <<"--foo", "--bar">>}
UserDataDirs == {"", "/tmp/d"}
Files == {"", "/a/b.html"}
Urls == {"", "http://localhost/"}
Addresses == {"", "127.0.0.1"}
LaunchArgs ==
    [runtimeExecutable : Executables, port : Ports, runtimeArgs : RuntimeArgs,
     userDataDir : UserDataDirs, file : Files, url : Urls, address : Addresses]

\* the configurations the lifecycle is explored with: those that differ in the
\* fields launch branches on before it spawns, and in the page to open
LifecycleArgs ==
    {a \in LaunchArgs : a.runtimeArgs = <<>> /\ a.userDataDir = "" /\ a.url = "" /\ a.address = ""}

DefaultPort == 9222

NoArgs == [runtimeExecutable |-> "", port |-> 0, runtimeArgs |-> <<>>,
           userDataDir |-> "", file |-> "", url |-> "", address |-> ""]

\* the configuration error of launch
CantFindChrome ==
    "Can't find Chrome - install it or set the \"runtimeExecutable\" field in the launch config."

\* no launch call yet
NoLaunch == [result |-> "none", error |-> "", args |-> NoArgs, discovered |-> "",
             path |-> "", argv |-> <<>>, port |-> 0, url |-> "", address |-> "", pid |-> 0]

\* coreUtils.pathToFileURL, for an absolute POSIX path
PathToFileURL(path) == "file://" \o path

\* mutant: launch falls back to a default executable name
ChromePathWithDefault(args, discovered) ==
    IF args.runtimeExecutable # "" THEN args.runtimeExecutable
    ELSE IF discovered # "" THEN discovered
    ELSE "chrome"

\* launch: the executable to start
ChromePath(args, discovered) ==
    IF args.runtimeExecutable # "" THEN args.runtimeExecutable ELSE discovered

\* launch: the debugging port
LaunchPort(args) == IF args.port # 0 THEN args.port ELSE DefaultPort

\* mutant: a blank page is opened when neither file nor url is given
LaunchUrlBlankDefault(args) ==
    IF args.file # "" THEN PathToFileURL(args.file)
    ELSE IF args.url # "" THEN args.url
    ELSE "about:blank"

\* mutant: url is tested before file
LaunchUrlPrefersUrl(args) ==
    IF args.url # "" THEN args.url
    ELSE IF args.file # "" THEN PathToFileURL(args.file)
    ELSE ""

\* mutant: doAttach is given args.port, not the defaulted port
AttachPortWithoutDefault(args) == args.port

\* launch: the port handed to doAttach
AttachPort(args) == LaunchPort(args)

\* launch: the URL to open ("" when there is none)
LaunchUrl(args) ==
    IF args.file # "" THEN PathToFileURL(args.file)
    ELSE IF args.url # "" THEN args.url
    ELSE ""

\* mutant: the user-data-dir flag is pushed before the runtime arguments
ChromeArgsUserDataDirFirst(args) ==
    <<"--remote-debugging-port=" \o ToString(LaunchPort(args))>>
    \o <<"--no-first-run", "--no-default-browser-check">>
    \o (IF args.userDataDir # "" THEN <<"--user-data-dir=" \o args.userDataDir>> ELSE <<>>)
    \o args.runtimeArgs
    \o (IF LaunchUrl(args) # "" THEN <<LaunchUrl(args)>> ELSE <<>>)

\* launch: the argument list handed to spawn
ChromeArgs(args) ==
    <<"--remote-debugging-port=" \o ToString(LaunchPort(args))>>
    \o <<"--no-first-run", "--no-default-browser-check">>
    \o args.runtimeArgs
    \o (IF args.userDataDir # "" THEN <<"--user-data-dir=" \o args.userDataDir>> ELSE <<>>)
    \o (IF LaunchUrl(args) # "" THEN <<LaunchUrl(args)>> ELSE <<>>)

LauncherInit ==
    /\ chromeProc = 0
    /\ procs = <<>>
    /\ coreLog = <<>>
    /\ lastLaunch = NoLaunch
    /\ attaches = 0
    /\ disconnects = 0
    /\ baseDisconnects = 0
    /\ baseClears = 0
    /\ terminated = FALSE

\* ChromeDebugAdapter.launch(args); discovered is what utils.getBrowserPath() returns
Launch(args, discovered) ==
    /\ IF ChromePath(args, discovered) = ""
       THEN /\ lastLaunch' = [NoLaunch EXCEPT !.result = "rejected",
                                              !.error = CantFindChrome,
                                              !.args = args, !.discovered = discovered]
            /\ UNCHANGED <<chromeProc, procs, coreLog, attaches>>
       ELSE /\ Len(procs) < MaxLaunch
            /\ coreLog' = Append(coreLog, "spawn")
            /\ procs' = Append(procs, [kills |-> 0, detached |-> TRUE, unref |-> TRUE,
                                       observer |-> TRUE, errors |-> 0])
            /\ chromeProc' = Len(procs) + 1
            /\ attaches' = attaches + 1
            /\ lastLaunch' = [result |-> "attach", error |-> "",
                              args |-> args, discovered |-> discovered,
                              path |-> ChromePath(args, discovered),
                              argv |-> ChromeArgs(args),
                              port |-> AttachPort(args), url |-> LaunchUrl(args),
                              address |-> args.address, pid |-> Len(procs) + 1]
    /\ UNCHANGED <<disconnects, baseDisconnects, baseClears, terminated, sessionVars>>

\* the attach started by the latest launch completes or fails; the promise launch
\* returned is the promise of that attach
AttachSettles(ok) ==
    /\ lastLaunch.result = "attach"
    /\ lastLaunch' = [lastLaunch EXCEPT !.result = IF ok THEN "resolved" ELSE "failed",
                                        !.error = IF ok THEN "" ELSE "attach failed"]
    /\ UNCHANGED <<chromeProc, procs, coreLog, attaches, disconnects, baseDisconnects,
                   baseClears, terminated, sessionVars>>

\* mutant: the observer terminates the session without logging
ChildErrorSilent(p) ==
    /\ p \in 1..Len(procs)
    /\ procs[p].observer
    /\ procs[p].errors < MaxChildErrors
    /\ procs' = [procs EXCEPT ![p].errors = @ + 1]
    /\ terminated' = TRUE
    /\ UNCHANGED <<chromeProc, coreLog, lastLaunch, attaches, disconnects, baseDisconnects,
                   baseClears, sessionVars>>

\* mutant: the observer logs the error and leaves the session running
ChildErrorLogsOnly(p) ==
    /\ p \in 1..Len(procs)
    /\ procs[p].observer
    /\ procs[p].errors < MaxChildErrors
    /\ procs' = [procs EXCEPT ![p].errors = @ + 1]
    /\ coreLog' = Append(coreLog, "chrome error")
    /\ UNCHANGED <<chromeProc, lastLaunch, attaches, disconnects, baseDisconnects, baseClears,
                   terminated, sessionVars>>

\* the 'error' observer registered by launch fires for child p
ChildError(p) ==
    /\ p \in 1..Len(procs)
    /\ procs[p].observer
    /\ procs[p].errors < MaxChildErrors
    /\ procs' = [procs EXCEPT ![p].errors = @ + 1]
    /\ coreLog' = Append(coreLog, "chrome error")
    /\ terminated' = TRUE
    /\ UNCHANGED <<chromeProc, lastLaunch, attaches, disconnects, baseDisconnects, baseClears, sessionVars>>

\* mutant: disconnect signals the process but keeps the handle
DisconnectKeepsHandle ==
    /\ disconnects < MaxDisconnect
    /\ disconnects' = disconnects + 1
    /\ IF chromeProc # 0
       THEN procs' = [procs EXCEPT ![chromeProc].kills = @ + 1]
       ELSE UNCHANGED procs
    /\ UNCHANGED chromeProc
    /\ baseDisconnects' = baseDisconnects + 1
    /\ io' = Append(io, [ch |-> "disconnect"])
    /\ UNCHANGED <<coreLog, lastLaunch, attaches, baseClears, terminated>>
    /\ UNCHANGED <<isServer, nextSeq, request, response, future, cont, jobs, settled, ticks>>

\* ChromeDebugAdapter.disconnect()
Disconnect ==
    /\ disconnects < MaxDisconnect
    /\ disconnects' = disconnects + 1
    /\ IF chromeProc # 0
       THEN /\ procs' = [procs EXCEPT ![chromeProc].kills = @ + 1]
            /\ chromeProc' = 0
       ELSE UNCHANGED <<procs, chromeProc>>
    /\ baseDisconnects' = baseDisconnects + 1
    /\ io' = Append(io, [ch |-> "disconnect"])
    /\ UNCHANGED <<coreLog, lastLaunch, attaches, baseClears, terminated>>
    /\ UNCHANGED <<isServer, nextSeq, request, response, future, cont, jobs, settled, ticks>>

\* ChromeDebugAdapter.clearEverything()
ClearEverything ==
    /\ baseClears < MaxClear
    /\ chromeProc' = 0
    /\ baseClears' = baseClears + 1
    /\ UNCHANGED <<procs, coreLog, lastLaunch, attaches, disconnects, baseDisconnects, terminated, sessionVars>>

LauncherNext ==
    \/ \E args \in LifecycleArgs, d \in Discovered : Launch(args, d)
    \/ \E p \in 1..MaxLaunch : ChildError(p)
    \/ Disconnect
    \/ ClearEverything

\* ---- specifications ----

Init == SessionInit /\ LauncherInit

Next ==
    \/ SessionNext
    \/ Tick
    \/ \E ev \in Events : EngineEvent(ev)
    \/ LauncherNext
    \/ \E ok \in BOOLEAN : AttachSettles(ok)

Spec == Init /\ [][Next]_vars

\* the session alone
SessionSpec == Init /\ [][SessionNext]_vars

\* the engine future of request s settles
Settle(s) ==
    \/ \E body \in Bodies : Resolve(s, body)
    \/ \E e \in ErrorValues : Reject(s, e)

\* the session, where every engine future settles and the job queue is drained
SessionLiveSpec ==
    /\ SessionSpec
    /\ WF_vars(RunContinuation)
    /\ \A s \in 1..MaxReq : WF_vars(Settle(s))

\* one input for each path a request can take
PathOutcomes == {[kind |-> "promise", e |-> NoErr]} \cup {[kind |-> "throw", e |-> e] : e \in ThrownValues}
PathErrors == {[kind |-> "string", text |-> "unknowncommand"], [kind |-> "Error", text |-> "boom"]}

\* the session, one input per path
PathNext ==
    \/ \E out \in PathOutcomes : DispatchRequest("evaluate", out)
    \/ \E s \in 1..MaxReq : Resolve(s, "bodyA")
    \/ \E s \in 1..MaxReq, e \in PathErrors : Reject(s, e)
    \/ RunContinuation

\* all the traffic of the session: requests, responses, events, separator lines
LoggingNext ==
    \/ PathNext /\ nextSeq' <= MaxLogged
    \/ Tick
    \/ \E ev \in Events : EngineEvent(ev)

LoggingSpec == Init /\ [][LoggingNext]_vars

\* the protocol traffic of the session: requests, responses, events
TrafficNext ==
    \/ PathNext
    \/ \E ev \in Events : EngineEvent(ev)

TrafficSpec == Init /\ [][TrafficNext]_vars

\* launch calls over every configuration
ArgvNext == \E args \in LaunchArgs, d \in Discovered : Launch(args, d)

\* the launcher's argument construction
ArgvSpec == Init /\ [][ArgvNext]_vars

\* the configurations the attach is explored with: those that differ in what
\* doAttach is given
AttachArgs ==
    {a \in LaunchArgs : a.runtimeArgs = <<>> /\ a.userDataDir = "" /\ a.file = "" /\ a.url = ""}

\* launch, the attach it starts and the child's errors
AttachNext ==
    \/ \E args \in AttachArgs, d \in Discovered : Launch(args, d)
    \/ \E ok \in BOOLEAN : AttachSettles(ok)
    \/ \E p \in 1..MaxLaunch : ChildError(p)

AttachSpec == Init /\ [][AttachNext]_vars

\* one configuration that starts a process
SupervisedArgs == {[NoArgs EXCEPT !.runtimeExecutable = "/usr/bin/chrome"]}

\* the session together with the supervision of the target process
SupervisionNext ==
    \/ PathNext
    \/ \E args \in SupervisedArgs : Launch(args, "")
    \/ \E p \in 1..MaxLaunch : ChildError(p)

SupervisionSpec == Init /\ [][SupervisionNext]_vars

\* the session and its teardown; disconnect runs as a task of its own, when no
\* continuation is waiting in the job queue
TeardownNext ==
    \/ PathNext
    \/ jobs = <<>> /\ Disconnect

TeardownSpec == Init /\ [][TeardownNext]_vars

\* a configuration without an executable and one with
FailureArgs == {NoArgs, [NoArgs EXCEPT !.runtimeExecutable = "/usr/bin/chrome"]}

\* every failure path: of a request, of launch, of the child
FailureNext ==
    \/ PathNext /\ nextSeq' <= MaxLogged
    \/ \E args \in FailureArgs : Launch(args, "")
    \/ \E p \in 1..MaxLaunch : ChildError(p)

FailureSpec == Init /\ [][FailureNext]_vars

\* the launcher alone
LauncherSpec == Init /\ [][LauncherNext]_vars

\* ---- claims: the session ----

\* positions in the history where a Response for request s is handed to the transport
Sends(s) == {i \in 1..Len(io) : io[i].ch = "send" /\ io[i].resp.request_seq = s}

\* the Responses handed to the transport, oldest first
Sent == SelectSeq(io, LAMBDA x : x.ch = "send")

\* the Responses produced by continuations, oldest first
AsyncSent == SelectSeq(io, LAMBDA x : x.ch = "send" /\ future[x.resp.request_seq].state # "threw")

Threw(s) == s \in 1..nextSeq /\ future[s].state = "threw"
RejectedRan(s) == s \in 1..nextSeq /\ future[s].state = "rejected" /\ cont[s] = "ran"

\* C1: in every reachable state, at most one Response has been handed to the
\* transport for each request id, whichever path the request took.
C1_AtMostOneResponse ==
    \A s \in 1..nextSeq : Cardinality(Sends(s)) <= 1

\* C1 witness: a request whose dispatch threw and a request rejected with
\* 'unknowncommand' have both been answered, once each.
C1_Witness ==
    \E s, t \in 1..nextSeq :
        /\ Threw(s) /\ Cardinality(Sends(s)) = 1
        /\ RejectedRan(t) /\ ToStr(future[t].e) = "unknowncommand" /\ Cardinality(Sends(t)) = 1

\* C2: every request delivered to dispatchRequest is eventually answered by a
\* Response carrying its id, given that engine futures settle.
C2_EventuallyAnswered ==
    \A s \in 1..MaxReq : (nextSeq >= s) ~> (Sends(s) # {})

\* C2 witness: request 1 was still pending when request 2 arrived and was
\* answered, and request 1 has been answered after it.
C2_Witness ==
    /\ nextSeq >= 2
    /\ future[2].state = "threw"
    /\ future[1].state = "rejected" /\ cont[1] = "ran"
    /\ \E i \in Sends(2), j \in Sends(1) : i < j

\* C3: the Responses produced by continuations leave in the order the futures
\* settled, each with the id and command of its own request and the body or the
\* failure text of that request's own future.
C3_CompletionOrder ==
    /\ Len(AsyncSent) <= Len(settled)
    /\ \A i \in 1..Len(AsyncSent) :
        LET r == AsyncSent[i].resp
            s == r.request_seq
        IN /\ s = settled[i]
           /\ r.command = request[s].command
           /\ future[s].state = "resolved" => r.success /\ r.body = future[s].body
           /\ future[s].state = "rejected" =>
                /\ ~r.success
                /\ ToStr(future[s].e) # "unknowncommand" =>
                     r.message \in {ToStr(future[s].e), "[webkit-debug-adapter] " \o ToStr(future[s].e)}

\* C3 witness: requests 1 and 2 were issued back to back, the future of 2 resolved
\* first, and both Responses have been sent, 2 before 1, with different bodies.
C3_Witness ==
    /\ settled = <<2, 1>>
    /\ future[1].state = "resolved" /\ future[2].state = "resolved"
    /\ future[1].body # future[2].body
    /\ Len(Sent) = 2
    /\ Sent[1].resp.request_seq = 2 /\ Sent[2].resp.request_seq = 1

\* C4: a request whose future rejected with string form exactly "unknowncommand"
\* is answered by one Response with success=false, code 1014 'Unrecognized request',
\* Telemetry destination, and nothing of the failure in it.
C4_UnknownCommand ==
    \A s \in 1..nextSeq :
        (RejectedRan(s) /\ ToStr(future[s].e) = "unknowncommand") =>
            /\ Cardinality(Sends(s)) = 1
            /\ \A i \in Sends(s) :
                LET r == io[i].resp
                IN /\ r.success = FALSE
                   /\ r.error.id = 1014
                   /\ r.error.format = "Unrecognized request"
                   /\ r.error.dest = "Telemetry"
                   /\ r.error.variables = <<>>
                   /\ r.message = "Unrecognized request"
                   /\ r.body = Undefined

\* C4 witness: a rejection with the string 'unknowncommand' has been answered.
C4_Witness ==
    \E s \in 1..nextSeq :
        /\ RejectedRan(s)
        /\ future[s].e = [kind |-> "string", text |-> "unknowncommand"]
        /\ Sends(s) # {}

\* C5: a request whose future rejected with anything but 'unknowncommand' is
\* answered by one Response with success=false whose message is the failure text,
\* verbatim for 'evaluate' and prefixed with the adapter tag for any other command.
C5_FailureMessage ==
    \A s \in 1..nextSeq :
        (RejectedRan(s) /\ ToStr(future[s].e) # "unknowncommand") =>
            /\ Cardinality(Sends(s)) = 1
            /\ \A i \in Sends(s) :
                LET r == io[i].resp
                IN /\ r.success = FALSE
                   /\ r.message = IF request[s].command = "evaluate"
                                  THEN ToStr(future[s].e)
                                  ELSE "[webkit-debug-adapter] " \o ToStr(future[s].e)

\* C5 witness: an 'evaluate' request and another request have both been rejected
\* with a general failure and answered.
C5_Witness ==
    \E s, t \in 1..nextSeq :
        /\ request[s].command = "evaluate" /\ request[t].command # "evaluate"
        /\ RejectedRan(s) /\ ToStr(future[s].e) # "unknowncommand" /\ Sends(s) # {}
        /\ RejectedRan(t) /\ ToStr(future[t].e) # "unknowncommand" /\ Sends(t) # {}

\* C6: a request whose dispatch threw is answered by exactly one Response with
\* code 1104, Telemetry destination and the exception's message; it has no
\* continuation; and the session goes on accepting requests and answers every
\* later one.
C6_SynchronousThrow ==
    /\ [](\A s \in 1..nextSeq : Threw(s) =>
            /\ Cardinality(Sends(s)) = 1
            /\ \A i \in Sends(s) :
                LET r == io[i].resp
                IN /\ r.success = FALSE
                   /\ r.error.id = 1104
                   /\ r.error.dest = "Telemetry"
                   /\ r.error.variables = <<<<"_exception", MessageOf(future[s].e)>>>>
            /\ cont[s] = "none"
            /\ \A j \in 1..Len(jobs) : jobs[j] # s)
    /\ []((nextSeq < MaxReq /\ \E s \in 1..nextSeq : Threw(s)) =>
            ENABLED (\E cmd \in Commands, out \in ProxyOutcomes : DispatchRequest(cmd, out)))
    /\ \A t \in 2..MaxReq :
         (nextSeq >= t /\ \E s \in 1..(t - 1) : Threw(s)) ~> (Sends(t) # {})

\* C6 witness: the dispatch of request 1 threw an Error, and request 2, issued
\* afterwards, resolved and has been answered.
C6_Witness ==
    /\ nextSeq >= 2
    /\ Threw(1) /\ future[1].e.kind = "Error" /\ Cardinality(Sends(1)) = 1
    /\ future[2].state = "resolved" /\ cont[2] = "ran" /\ Sends(2) # {}

\* ---- claims: the launcher ----

\* the processes spawned and not yet signalled
Live == {p \in 1..Len(procs) : procs[p].kills = 0}

\* C7: at most one target process is live (spawned and not yet signalled) at any
\* time, across any sequence of launch, disconnect, clearEverything and child errors.
C7_AtMostOneLive == Cardinality(Live) <= 1

\* C8: every disconnect call leaves the handle cleared and delegates to the base
\* teardown once; it signals the held process once and no other, and signals
\* nothing when no handle is held.
C8_DisconnectIdempotent ==
    [][disconnects' # disconnects =>
         /\ chromeProc' = 0
         /\ baseDisconnects' = baseDisconnects + 1
         /\ chromeProc # 0 => procs' = [procs EXCEPT ![chromeProc].kills = @ + 1]
         /\ chromeProc = 0 => procs' = procs]_vars

\* C8 witness: one launch and two disconnects have happened, no clearEverything;
\* the process was signalled once, the handle is cleared, the base teardown ran twice.
C8_Witness ==
    /\ disconnects = 2 /\ baseDisconnects = 2 /\ baseClears = 0
    /\ Len(procs) = 1 /\ procs[1].kills = 1
    /\ chromeProc = 0

\* C9: whenever the handle goes from held to cleared, the process it referred to
\* has been signalled.
C9_ClearedMeansSignalled ==
    [][(chromeProc # 0 /\ chromeProc' = 0) => procs'[chromeProc].kills >= 1]_vars

\* C10: a launch with no executable given and none discovered is rejected with the
\* configuration error and changes nothing else: no process, no observer, no
\* attach, the handle as it was.
C10_NoExecutable ==
    [][(lastLaunch' # lastLaunch
          /\ lastLaunch'.args.runtimeExecutable = "" /\ lastLaunch'.discovered = "") =>
         /\ lastLaunch'.result = "rejected"
         /\ lastLaunch'.error = CantFindChrome
         /\ procs' = procs
         /\ chromeProc' = chromeProc
         /\ attaches' = attaches
         /\ coreLog' = coreLog]_vars

\* C10 witness: a launch without any executable was rejected while a handle from
\* an earlier launch was held, and the handle is still held.
C10_Witness ==
    /\ lastLaunch.result = "rejected"
    /\ lastLaunch.args.runtimeExecutable = "" /\ lastLaunch.discovered = ""
    /\ Len(procs) = 1 /\ chromeProc = 1 /\ attaches = 1

\* ---- claims: the argument list ----

\* the latest launch call spawned a process
Spawned == lastLaunch.result = "attach"

\* C11: the argv handed to spawn is the port flag (9222 when no port is given),
\* the two fixed flags, the runtime arguments in their order, the user-data-dir
\* flag if a directory is given, and the launch URL last if there is one; nothing else.
C11_ArgvOrder ==
    Spawned =>
        LET a == lastLaunch.args
            portFlag == IF a.port = 9000 THEN "--remote-debugging-port=9000"
                        ELSE "--remote-debugging-port=9222"
            dirFlag == IF a.userDataDir = "" THEN <<>> ELSE <<"--user-data-dir=" \o a.userDataDir>>
            nav == IF a.file = "/a/b.html" THEN <<"file:///a/b.html">>
                   ELSE IF a.url # "" THEN <<a.url>>
                   ELSE <<>>
        IN lastLaunch.argv =
             <<portFlag, "--no-first-run", "--no-default-browser-check">>
             \o a.runtimeArgs \o dirFlag \o nav

\* C11 witness: port 9000, one runtime argument, a user data directory and a file
\* give the six-element argv of the specification's example.
C11_Witness ==
    /\ Spawned
    /\ lastLaunch.args.port = 9000 /\ lastLaunch.args.runtimeArgs = <<"--foo">>
    /\ lastLaunch.args.userDataDir = "/tmp/d" /\ lastLaunch.args.file = "/a/b.html"
    /\ lastLaunch.argv = <<"--remote-debugging-port=9000", "--no-first-run",
                           "--no-default-browser-check", "--foo",
                           "--user-data-dir=/tmp/d", "file:///a/b.html">>

\* a launch call with an executable to start has just run
LaunchedStep ==
    /\ lastLaunch' # lastLaunch
    /\ (lastLaunch'.args.runtimeExecutable # "" \/ lastLaunch'.discovered # "")

\* the number of argv elements before the navigation argument
FlagCount(a) == 3 + Len(a.runtimeArgs) + (IF a.userDataDir = "" THEN 0 ELSE 1)

\* C12: a launch with neither file nor url (and an executable) appends no
\* navigation argument, and still spawns the process and attempts the attach.
C12_NoNavigation ==
    [][(LaunchedStep /\ lastLaunch'.args.file = "" /\ lastLaunch'.args.url = "") =>
         /\ Len(lastLaunch'.argv) = FlagCount(lastLaunch'.args)
         /\ lastLaunch'.url = ""
         /\ lastLaunch'.result = "attach"
         /\ Len(procs') = Len(procs) + 1
         /\ chromeProc' = Len(procs')
         /\ attaches' = attaches + 1]_vars

\* C12 witness: a launch with runtime arguments and a user data directory but
\* neither file nor url has spawned a process.
C12_Witness ==
    /\ Spawned
    /\ lastLaunch.args.file = "" /\ lastLaunch.args.url = ""
    /\ lastLaunch.args.runtimeArgs = <<"--foo", "--bar">> /\ lastLaunch.args.userDataDir # ""
    /\ Len(lastLaunch.argv) = 6 /\ Len(procs) = 1 /\ attaches = 1

\* C19: a launch given both file and url does not fail, appends exactly one
\* navigation argument, the file as a file URL, and passes that URL to attach.
C19_FileBeforeUrl ==
    [][(LaunchedStep /\ lastLaunch'.args.file = "/a/b.html" /\ lastLaunch'.args.url # "") =>
         /\ lastLaunch'.result = "attach"
         /\ Len(procs') = Len(procs) + 1
         /\ Len(lastLaunch'.argv) = FlagCount(lastLaunch'.args) + 1
         /\ lastLaunch'.argv[Len(lastLaunch'.argv)] = "file:///a/b.html"
         /\ \A i \in 1..Len(lastLaunch'.argv) : lastLaunch'.argv[i] # lastLaunch'.args.url
         /\ lastLaunch'.url = "file:///a/b.html"]_vars

\* C19 witness: a launch given both a file and a url has spawned a process.
C19_Witness ==
    /\ Spawned
    /\ lastLaunch.args.file = "/a/b.html" /\ lastLaunch.args.url = "http://localhost/"
    /\ lastLaunch.url = "file:///a/b.html"

\* ---- claims: logging ----

\* positions in the history of the given kind
Entries(kind) == {i \in 1..Len(io) : io[i].ch = kind}

\* C13: when the session was not initialized in server mode, no Logger.log call
\* writes to the console, whatever requests, responses, events and separator
\* ticks occur; a write happens only in server mode with the static flag set, and
\* only as part of a Logger.log call.
C13_SuppressedUnlessServer ==
    \A i \in Entries("console") :
        /\ isServer /\ ALLOW_LOGGING
        /\ i > 1 /\ io[i - 1].ch = "log" /\ io[i - 1].msg = io[i].msg

\* C13 witness: outside server mode a request was logged and answered, an event
\* was sent and the separator ticked, five Logger.log calls or more, and nothing
\* was written.
C13_Witness ==
    /\ ~isServer
    /\ Cardinality(Entries("log")) >= 5
    /\ ticks >= 1 /\ Entries("event") # {} /\ Entries("send") # {}
    /\ Entries("console") = {}

\* the position of the Logger.log call immediately before position i: the entry
\* before it, or the one before that when the call wrote to the console
CallBefore(i) == IF i > 1 /\ io[i - 1].ch = "console" THEN i - 2 ELSE i - 1

\* position i follows directly a Logger.log call with the given tag
LoggedAs(i, tag) ==
    /\ CallBefore(i) >= 1
    /\ io[CallBefore(i)].ch = "log"
    /\ io[CallBefore(i)].msg.tag = tag

\* C18: the request is logged directly before it is handed to the adapter
\* proxy, and every Response and every Event is logged, as itself, directly
\* before it is handed to the transport.
C18_TrafficLogged ==
    /\ \A i \in Entries("proxy") :
         /\ LoggedAs(i, "From client")
         /\ io[CallBefore(i)].msg.command = request[io[i].seq].command
    /\ \A i \in Entries("send") :
         /\ LoggedAs(i, "To client")
         /\ io[CallBefore(i)].msg.payload = io[i].resp
    /\ \A i \in Entries("event") :
         /\ LoggedAs(i, "To client")
         /\ io[CallBefore(i)].msg.payload = io[i].ev

\* C18 witness: in server mode a successful Response, an error Response of a
\* dispatch that threw and an event have all been sent.
C18_Witness ==
    /\ isServer
    /\ \E i, j \in Entries("send") : io[i].resp.success /\ io[j].resp.error.id = 1104
    /\ Entries("event") # {}

\* ---- claims: precedence of the unknown-command case ----

\* C20: an 'evaluate' request rejected with string form exactly "unknowncommand"
\* is answered with the 1014 error and not with the raw failure text as message,
\* and the failure text is never logged as an error line.
C20_UnknownBeforeEvaluate ==
    /\ \A s \in 1..nextSeq :
         (request[s].command = "evaluate" /\ RejectedRan(s)
            /\ ToStr(future[s].e) = "unknowncommand") =>
             /\ Sends(s) # {}
             /\ \A i \in Sends(s) :
                  /\ io[i].resp.error.id = 1014
                  /\ io[i].resp.message # "unknowncommand"
    /\ \A j \in 1..Len(io) :
         (io[j].ch = "log" /\ io[j].msg.tag = "error") => io[j].msg.text # "unknowncommand"

\* C20 witness: an 'evaluate' request rejected with the string 'unknowncommand'
\* has been answered.
C20_Witness ==
    \E s \in 1..nextSeq :
        /\ request[s].command = "evaluate"
        /\ RejectedRan(s) /\ future[s].e.kind = "string" /\ future[s].e.text = "unknowncommand"
        /\ Cardinality(Sends(s)) = 1

\* ---- claims: launch and attach ----

\* the attach of the latest launch has just settled
AttachSettledStep ==
    /\ lastLaunch.result = "attach"
    /\ lastLaunch'.result \in {"resolved", "failed"}
    /\ lastLaunch'.pid = lastLaunch.pid

\* the 'error' observer of some child has just run
ChildErrorStep == \E p \in 1..Len(procs) : procs'[p].errors # procs[p].errors

\* C16: a launch that has an executable spawns one process, registers the failure
\* observer on it and calls doAttach once, with the port of the port flag and the
\* configured address; its result is pending until that attach settles, and a
\* child error does not change it.
C16_LaunchIsAttach ==
    /\ [][(LaunchedStep /\ ~AttachSettledStep) =>
            /\ Len(procs') = Len(procs) + 1
            /\ procs'[Len(procs')].observer
            /\ attaches' = attaches + 1
            /\ lastLaunch'.result = "attach"
            /\ lastLaunch'.port = IF lastLaunch'.args.port = 0 THEN 9222 ELSE lastLaunch'.args.port
            /\ lastLaunch'.argv[1] = "--remote-debugging-port=" \o ToString(lastLaunch'.port)
            /\ lastLaunch'.address = lastLaunch'.args.address]_vars
    /\ [][ChildErrorStep => lastLaunch' = lastLaunch]_vars
    /\ [][(lastLaunch.result = "attach" /\ lastLaunch'.result # "attach") =>
            (AttachSettledStep \/ lastLaunch'.pid # lastLaunch.pid)]_vars

\* C16 witness: a launch without a port attached on 9222; its child reported an
\* error, and afterwards the attach, and with it the launch, failed.
C16_Witness ==
    /\ lastLaunch.result = "failed"
    /\ lastLaunch.args.port = 0 /\ lastLaunch.port = 9222 /\ lastLaunch.address = "127.0.0.1"
    /\ procs[lastLaunch.pid].errors >= 1
    /\ attaches = 1

\* ---- claims: what ends the session ----

\* the handler of request s has finished: its dispatch threw or its continuation ran
Handled(s) == s \in 1..nextSeq /\ (future[s].state = "threw" \/ cont[s] = "ran")

\* request s failed: it was answered with success = false
Failed(s) == \E i \in Sends(s) : ~io[i].resp.success

\* C14: a child-process error always logs the error and terminates the session;
\* nothing else terminates it, no outcome of a request in particular; and every
\* request handled after a failed one is answered.
C14_OnlyChildErrorTerminates ==
    /\ [][ChildErrorStep =>
            terminated' /\ coreLog' = Append(coreLog, "chrome error")]_vars
    /\ [][terminated' # terminated => ChildErrorStep]_vars
    /\ [][io' # io => terminated' = terminated]_vars
    /\ [](\A s, t \in 1..nextSeq :
            (s < t /\ Failed(s) /\ Handled(t)) => Cardinality(Sends(t)) = 1)

\* C14 witness: request 1 was rejected and request 2 threw, both were answered and
\* the session went on; then the child of a launch reported an error and the
\* session was terminated.
C14_Witness ==
    /\ nextSeq >= 2
    /\ future[1].state = "rejected" /\ Failed(1)
    /\ future[2].state = "threw" /\ Failed(2)
    /\ terminated
    /\ Len(procs) = 1 /\ procs[1].errors = 1
    /\ coreLog = <<"spawn", "chrome error">>

\* ---- claims: teardown ----

\* C15: once disconnect has run, a continuation that was pending then and fires
\* later hands no Response to the transport.
C15_NoSendAfterTeardown ==
    \A k \in Entries("disconnect") : \A p \in Entries("proxy") :
        (p < k /\ future[io[p].seq].state \in {"resolved", "rejected"}) =>
            \A i \in Sends(io[p].seq) : i < k

\* ---- claims: failures are logged ----

\* a launch call has just returned the configuration error
RejectedLaunchStep == lastLaunch' # lastLaunch /\ lastLaunch'.result = "rejected"

\* every error Response was logged directly before it was sent, and the text of
\* a general failure was logged before that
FailedResponsesLogged ==
    /\ \A i \in Entries("send") : ~io[i].resp.success => LoggedAs(i, "To client")
    /\ \A s \in 1..nextSeq :
         (RejectedRan(s) /\ ToStr(future[s].e) # "unknowncommand") =>
            \E j \in Entries("log") :
                /\ io[j].msg.tag = "error"
                /\ io[j].msg.text = ToStr(future[s].e)
                /\ \A i \in Sends(s) : j < i

\* C17 as claimed: every failure path makes a log call no later than its outcome:
\* the rejected launch, the termination after a child error, the error Response.
C17_EveryFailureLogs ==
    /\ [][RejectedLaunchStep => Len(coreLog') > Len(coreLog)]_vars
    /\ [][ChildErrorStep => coreLog' = Append(coreLog, "chrome error")]_vars
    /\ []FailedResponsesLogged

\* C17 as amended: the child error, the unknown-command rejection, the general
\* rejection and the dispatch exception make a log call no later than their
\* outcome; launch makes none before it returns the configuration error.
C17_FailuresLogExceptConfiguration ==
    /\ [][RejectedLaunchStep => coreLog' = coreLog /\ io' = io]_vars
    /\ [][ChildErrorStep => coreLog' = Append(coreLog, "chrome error")]_vars
    /\ []FailedResponsesLogged

\* C17 witness: a launch was rejected for want of an executable after a child
\* error had terminated the session, and a request was rejected with a general
\* failure and answered.
C17_Witness ==
    /\ lastLaunch.result = "rejected"
    /\ terminated /\ coreLog = <<"spawn", "chrome error">>
    /\ \E s \in 1..nextSeq :
         RejectedRan(s) /\ ToStr(future[s].e) # "unknowncommand" /\ Failed(s)

====
